---- MODULE Spec2Model ----
(***************************************************************************)
(* CSV ingestion and validation pipeline of python-api:                    *)
(*   app/utils/validators.py    CSVValidator (validate_csv and its checks) *)
(*   app/services/file_service.py  FileService.upload_and_process_csv      *)
(*   app/modules/csv/repository.py FileRepository                          *)
(*   app/routers/files.py          upload_file (POST /files/upload)        *)
(*   app/middleware/auth.py        get_current_user, require_role          *)
(*                                                                         *)
(* File content is modelled after tokenisation: a flag telling whether the *)
(* bytes decode as UTF-8 and the sequence of physical lines, each line the *)
(* list of cells csv.reader yields for it (<<>> for a blank line) or a     *)
(* line on which csv.reader raises csv.Error.  Message texts are written   *)
(* without accents.                                                        *)
(***************************************************************************)
EXTENDS Integers, Sequences, FiniteSets, TLC

\* ------------------------------------------------------------------ bounds
\* largest number of physical lines after the first line of a file
MaxDataLines == 2

\* ------------------------------------------------------- Python's values
\* Python's None (DictReader's restval, and the value of an unset column)
NoneVal == "<None>"

\* Optional[...] values: None is <<>>, a value v is <<v>>
Some(v) == <<v>>

\* ------------------------------------------------------------- the inputs
\* cell texts of data lines
Cells == {"", "1", "x"}

\* first lines (headers) of the files considered; <<>> is a blank first line
Headers == { <<"id", "nombre">>, <<"nombre", "nombre">>, <<"id", "id">>, <<>> }

GoodLine(cells) == [bad |-> FALSE, cells |-> cells]

\* a line on which csv.reader raises csv.Error (e.g. a bare \r in a field)
BadLine == [bad |-> TRUE, cells |-> <<>>]

\* texts of w cells
RECURSIVE CellSeqs(_)
CellSeqs(w) ==
    IF w = 0 THEN { <<>> }
    ELSE { Append(s, c) : s \in CellSeqs(w - 1), c \in Cells }

\* data lines for a header of w columns: 0..w cells, one line of w + 1 cells,
\* and a line csv.reader rejects
DataLines(w) ==
    { GoodLine(s) : s \in UNION { CellSeqs(n) : n \in 0..w } }
        \cup { GoodLine([i \in 1..(w + 1) |-> IF i = 1 THEN "1" ELSE "x"]) }
        \cup { BadLine }

\* the sequences of n data lines for a header of w columns
LineSeqs(w, n) == [1..n -> DataLines(w)]

\* bytes that do not decode, and no bytes at all
NoLines == { [utf8 |-> FALSE, lines |-> <<>>], [utf8 |-> TRUE, lines |-> <<>>] }

\* c is a byte content a request can carry, of at most m lines after the
\* first: no line, a header and data lines, or a first line csv.reader
\* rejects and at most one more line
IsContent(c, m) ==
    \/ c \in NoLines
    \/ \E h \in Headers, n \in 0..m :
          \E d \in LineSeqs(Len(h), n) :
              c = [utf8 |-> TRUE, lines |-> <<GoodLine(h)>> \o d]
    \/ \E n \in 0..1 :
          \E d \in LineSeqs(0, n) :
              c = [utf8 |-> TRUE, lines |-> <<BadLine>> \o d]

\* ------------------------------------- inputs of validate_csv called alone
\* largest number of physical lines after the first line, for these inputs
MaxCheckLines == 3

\* cell texts, one of them blank
CheckCells == Cells \cup {" "}

\* first lines: one and two columns whose names contain "id" or "numero"
CheckHeaders == { <<"id", "nombre">>, <<"ID", "numero_cliente">> }

\* data lines: two cells, one cell, no cell (a blank line), three cells
CheckLines ==
    { GoodLine(<<a, b>>) : a \in CheckCells, b \in CheckCells }
        \cup { GoodLine(<<"1">>), GoodLine(<<>>), GoodLine(<<"1", "x", "x">>) }

\* the content of a first line h and the data lines d
CheckContent(h, d) == [utf8 |-> TRUE, lines |-> <<GoodLine(h)>> \o d]

\* a call that leaves out the Optional categoria and descripcion
Unlabelled(filename) ==
    [filename |-> filename, categoria |-> <<>>, descripcion |-> <<>>]

\* filename, categoria and descripcion a call is made with
Requests ==
    { Unlabelled("test.csv"),
      [filename |-> "test.csv", categoria |-> Some("test"),
       descripcion |-> Some("Archivo de prueba")] }

\* ------------------------------------------ inputs of POST /files/upload
\* roles a token can carry
Roles == {"admin", "uploader", "user"}

\* bearer tokens: valid stands for a token jwt.decode accepts (signature and
\* expiry) and that carries id_usuario and rol
Tokens ==
    { [valid |-> TRUE, rol |-> r] : r \in Roles }
        \cup { [valid |-> FALSE, rol |-> "admin"] }

\* names of the files sent
Filenames == {"test.csv", "test.txt", "test.CSV", ""}

\* largest number of lines after the first in the contents sent
ApiDataLines == 1

\* ------------------------------------------------------- csv.DictReader
\* the dict DictReader builds for one line: dict(zip(fieldnames, row)),
\* extra cells under the key None (kept in rest), missing keys set to None
DictRow(fieldnames, cells) ==
    LET lf == Len(fieldnames)
        lr == Len(cells)
        zipped == IF lf < lr THEN lf ELSE lr
        Last(k) == CHOOSE i \in 1..zipped :
                       /\ fieldnames[i] = k
                       /\ \A j \in (i + 1)..zipped : fieldnames[j] # k
    IN  [d |-> [k \in {fieldnames[i] : i \in 1..lf} |->
                  IF \E i \in (lr + 1)..lf : fieldnames[i] = k
                  THEN NoneVal
                  ELSE cells[Last(k)]],
         rest |-> IF lf < lr THEN SubSeq(cells, lf + 1, lr) ELSE <<>>]

\* the row has the key None (restkey)
HasRestKey(row) == row.rest # <<>>

\* len(row)
RowLen(row) == Cardinality(DOMAIN row.d) + (IF HasRestKey(row) THEN 1 ELSE 0)

\* row.get(field, default)
RowGet(row, field, default) ==
    IF field \in DOMAIN row.d THEN row.d[field] ELSE default

\* DictReader.fieldnames once the first line was read
Fieldnames(lines) == lines[1].cells

\* first line after position i that is not blank (DictReader skips row == [])
RECURSIVE SkipBlank(_, _)
SkipBlank(lines, i) ==
    IF i > Len(lines) THEN i
    ELSE IF lines[i].bad THEN i
    ELSE IF lines[i].cells = <<>> THEN SkipBlank(lines, i + 1)
    ELSE i

NoRow == [d |-> <<>>, rest |-> <<>>]

\* what DictReader.__next__ gives when line i is the next one not blank
ReadLine(lines, i) ==
    IF i > Len(lines) THEN [kind |-> "stop", row |-> NoRow, pos |-> Len(lines)]
    ELSE IF lines[i].bad THEN [kind |-> "error", row |-> NoRow, pos |-> i]
    ELSE [kind |-> "row", row |-> DictRow(Fieldnames(lines), lines[i].cells),
          pos |-> i]

\* DictReader.__next__ with pos lines consumed so far:
\* kind is "row", "stop" (StopIteration) or "error" (csv.Error)
ReaderNext(lines, pos) ==
    IF pos = 0 /\ Len(lines) = 0
    THEN [kind |-> "stop", row |-> NoRow, pos |-> 0]
    ELSE IF pos = 0 /\ lines[1].bad
    THEN [kind |-> "error", row |-> NoRow, pos |-> 0]
    ELSE ReadLine(lines, SkipBlank(lines, IF pos = 0 THEN 2 ELSE pos + 1))

\* list(csv_reader), n being the outcome of the last __next__
RECURSIVE ReadMore(_, _, _)
RECURSIVE ReadAll(_, _, _)
ReadMore(lines, acc, n) ==
    IF n.kind = "stop" THEN [error |-> FALSE, rows |-> acc]
    ELSE IF n.kind = "error" THEN [error |-> TRUE, rows |-> <<>>]
    ELSE ReadAll(lines, n.pos, Append(acc, n.row))

\* list(csv_reader)
ReadAll(lines, pos, acc) == ReadMore(lines, acc, ReaderNext(lines, pos))

\* ------------------------------------------------------------ CSVValidator
\* not str(value).strip(): the text is empty after trimming (str(None) is
\* "None", which is not empty)
StripIsEmpty(value) == value \in {"", " "}

\* truth value of a cell: None and "" are false
Truthy(value) == value # NoneVal /\ value # ""

\* float(value) does not raise ValueError
ParsesAsFloat(value) == value \in {"1"}

\* "id" in field.lower() or "numero" in field.lower()
IsNumericField(field) == field \in {"id", "ID", "numero", "numero_cliente"}

\* any(not str(row.get(field, "")).strip() for field in fieldnames)
HasEmpty(row, fieldnames) ==
    \E k \in 1..Len(fieldnames) : StripIsEmpty(RowGet(row, fieldnames[k], ""))

\* the loop of _check_empty_values numbering the rows from 1
RECURSIVE EmptyValuesLoop_FromOne(_, _, _, _)
EmptyValuesLoop_FromOne(rows, fieldnames, i, empty_rows) ==
    IF i > Len(rows) THEN empty_rows
    ELSE EmptyValuesLoop_FromOne(rows, fieldnames, i + 1,
             IF HasEmpty(rows[i], fieldnames)
             THEN Append(empty_rows, i)
             ELSE empty_rows)

\* _check_empty_values: i is the position in rows, idx = i + 1 (start=2)
RECURSIVE EmptyValuesLoop(_, _, _, _)
EmptyValuesLoop(rows, fieldnames, i, empty_rows) ==
    IF i > Len(rows) THEN empty_rows
    ELSE EmptyValuesLoop(rows, fieldnames, i + 1,
             IF HasEmpty(rows[i], fieldnames)
             THEN Append(empty_rows, i + 1)
             ELSE empty_rows)

check_empty_values(rows, fieldnames) ==
    EmptyValuesLoop(rows, fieldnames, 1, <<>>)

\* the inner loop of _check_incorrect_types without the break: the row is
\* added once for every field that fails
RECURSIVE IncorrectTypesFields_NoBreak(_, _, _, _, _)
IncorrectTypesFields_NoBreak(row, fieldnames, idx, k, incorrect_rows) ==
    IF k > Len(fieldnames) THEN incorrect_rows
    ELSE LET field == fieldnames[k]
             value == RowGet(row, field, "")
         IN  IncorrectTypesFields_NoBreak(row, fieldnames, idx, k + 1,
                 IF IsNumericField(field) /\ Truthy(value)
                                          /\ ~ParsesAsFloat(value)
                 THEN Append(incorrect_rows, idx)
                 ELSE incorrect_rows)

\* the inner loop of _check_incorrect_types over the fields of one row,
\* leaving at the first field that fails (break)
RECURSIVE IncorrectTypesFields(_, _, _, _, _)
IncorrectTypesFields(row, fieldnames, idx, k, incorrect_rows) ==
    IF k > Len(fieldnames) THEN incorrect_rows
    ELSE LET field == fieldnames[k]
             value == RowGet(row, field, "")
         IN  IF IsNumericField(field) /\ Truthy(value) /\ ~ParsesAsFloat(value)
             THEN Append(incorrect_rows, idx)
             ELSE IncorrectTypesFields(row, fieldnames, idx, k + 1,
                                       incorrect_rows)

RECURSIVE IncorrectTypesLoop(_, _, _, _)
IncorrectTypesLoop(rows, fieldnames, i, incorrect_rows) ==
    IF i > Len(rows) THEN incorrect_rows
    ELSE IncorrectTypesLoop(rows, fieldnames, i + 1,
             IncorrectTypesFields(rows[i], fieldnames, i + 1, 1,
                                  incorrect_rows))

check_incorrect_types(rows, fieldnames) ==
    IncorrectTypesLoop(rows, fieldnames, 1, <<>>)

\* hash(tuple(sorted(row.items()))) raises TypeError for a row with the key
\* None: sorting compares None with a column name, and the value under None
\* is a list, which is not hashable
RowHashRaises(row) == HasRestKey(row)

TypeErrorText(row) ==
    IF Cardinality(DOMAIN row.d) > 0
    THEN "'<' not supported between instances of 'NoneType' and 'str'"
    ELSE "unhashable type: 'list'"

\* the hash of a row without the key None: the sorted (column, value) pairs,
\* which the function row.d stands for (hash collisions are not modelled)
RowHash(row) == row.d

\* _check_duplicates numbering the rows from 1
RECURSIVE DuplicatesLoop_FromOne(_, _, _, _)
DuplicatesLoop_FromOne(rows, i, seen, duplicates) ==
    IF i > Len(rows)
    THEN [raised |-> FALSE, exc |-> "", value |-> duplicates]
    ELSE IF RowHashRaises(rows[i])
    THEN [raised |-> TRUE, exc |-> TypeErrorText(rows[i]), value |-> <<>>]
    ELSE IF RowHash(rows[i]) \in seen
    THEN DuplicatesLoop_FromOne(rows, i + 1, seen, Append(duplicates, i))
    ELSE DuplicatesLoop_FromOne(rows, i + 1, seen \cup {RowHash(rows[i])},
                                duplicates)

\* _check_duplicates: [raised, exc, value]
RECURSIVE DuplicatesLoop(_, _, _, _)
DuplicatesLoop(rows, i, seen, duplicates) ==
    IF i > Len(rows)
    THEN [raised |-> FALSE, exc |-> "", value |-> duplicates]
    ELSE IF RowHashRaises(rows[i])
    THEN [raised |-> TRUE, exc |-> TypeErrorText(rows[i]), value |-> <<>>]
    ELSE IF RowHash(rows[i]) \in seen
    THEN DuplicatesLoop(rows, i + 1, seen, Append(duplicates, i + 1))
    ELSE DuplicatesLoop(rows, i + 1, seen \cup {RowHash(rows[i])}, duplicates)

check_duplicates(rows) == DuplicatesLoop(rows, 1, {}, <<>>)

\* _check_invalid_format
RECURSIVE InvalidFormatLoop(_, _, _, _)
InvalidFormatLoop(rows, expected_columns, i, invalid_rows) ==
    IF i > Len(rows) THEN invalid_rows
    ELSE InvalidFormatLoop(rows, expected_columns, i + 1,
             IF RowLen(rows[i]) # expected_columns
             THEN Append(invalid_rows, i + 1)
             ELSE invalid_rows)

check_invalid_format(rows, fieldnames) ==
    InvalidFormatLoop(rows, Len(fieldnames), 1, <<>>)

\* one entry of the list validate_csv returns
Finding(type, message, rows, severity) ==
    [validation_type |-> type, message |-> message,
     affected_rows |-> rows, severity |-> severity]

FoundMessage(n, what) == "Se encontraron " \o ToString(n) \o what

\* the entry for a file without data rows, with a wrong severity
EmptyFileFinding_Warning ==
    Finding("empty_file", "El archivo CSV esta vacio", <<>>, "warning")

\* the entry for a file without data rows
EmptyFileFinding ==
    Finding("empty_file", "El archivo CSV esta vacio", <<>>, "error")

SuccessFinding ==
    Finding("success", "El archivo CSV paso todas las validaciones",
            <<>>, "info")

\* if not validations: the success entry is added to an empty list only
WithSuccess(vals) == IF vals = <<>> THEN <<SuccessFinding>> ELSE vals

UnicodeDecodeErrorText == "'utf-8' codec can't decode byte"
CsvErrorText == "new-line character seen in unquoted field"

\* validations after one check: its finding is appended if it listed a row
AddFinding(vals, type, rows, what, severity) ==
    IF rows # <<>>
    THEN Append(vals, Finding(type, FoundMessage(Len(rows), what), rows,
                              severity))
    ELSE vals

\* outcome of a block: the list built so far, and the exception that left it
Returned(vals) == [raised |-> FALSE, exc |-> "", validations |-> vals]
Raised(text, vals) == [raised |-> TRUE, exc |-> text, validations |-> vals]

\* validations after the checks 1 and 2
AfterTypes(rows, fieldnames) ==
    AddFinding(
        AddFinding(<<>>, "empty_values",
                   check_empty_values(rows, fieldnames),
                   " filas con valores vacios", "warning"),
        "incorrect_types", check_incorrect_types(rows, fieldnames),
        " filas con tipos de datos incorrectos", "error")

\* the checks 3 and 4 and the success rule, dup being what
\* _check_duplicates answered and vals the list after the checks 1 and 2
AfterDuplicates(rows, fieldnames, vals, dup) ==
    IF dup.raised
    THEN Raised(dup.exc, vals)
    ELSE Returned(WithSuccess(
             AddFinding(
                 AddFinding(vals, "duplicates", dup.value,
                            " filas duplicadas", "warning"),
                 "invalid_format", check_invalid_format(rows, fieldnames),
                 " filas con formato incorrecto", "error")))

\* the try block of validate_csv once the content is decoded, parsed being
\* what list(csv_reader) gave
ValidateParsed(lines, parsed) ==
    IF parsed.error THEN Raised(CsvErrorText, <<>>)
    ELSE IF parsed.rows = <<>> THEN Returned(<<EmptyFileFinding>>)
    ELSE AfterDuplicates(parsed.rows, Fieldnames(lines),
                         AfterTypes(parsed.rows, Fieldnames(lines)),
                         check_duplicates(parsed.rows))

\* the try block of validate_csv
ValidateTry(c) ==
    IF ~c.utf8 THEN Raised(UnicodeDecodeErrorText, <<>>)
    ELSE ValidateParsed(c.lines, ReadAll(c.lines, 0, <<>>))

ParseErrorFinding(text) ==
    Finding("parse_error", "Error al procesar el archivo CSV: " \o text,
            <<>>, "error")

\* validate_csv without the except clause: t is the outcome of the try block
Except_Missing(t) ==
    [raised |-> t.raised, exc |-> t.exc, value |-> t.validations]

\* the except clause of validate_csv turns an exception of the try block
\* into a parse_error entry appended to the list built so far
Except(t) ==
    IF t.raised
    THEN [raised |-> FALSE, exc |-> "",
          value |-> Append(t.validations, ParseErrorFinding(t.exc))]
    ELSE [raised |-> FALSE, exc |-> "", value |-> t.validations]

\* validate_csv: what the call gives, or the exception that leaves it
validate_csv(c) == Except(ValidateTry(c))

\* ------------------------------------------------------------- exceptions
\* ExternalServiceError(message, service): BaseAppException with the full
\* message and HTTP status 502
ExternalServiceError(message, service) ==
    [kind |-> "raise", type |-> "ExternalServiceError",
     message |-> "Error en " \o service \o ": " \o message,
     status_code |-> 502]

\* DatabaseError(message): HTTP status 500
DatabaseError(message) ==
    [kind |-> "raise", type |-> "DatabaseError",
     message |-> message, status_code |-> 500]

\* AuthenticationError(message): HTTP status 401
AuthenticationError(message) ==
    [kind |-> "raise", type |-> "AuthenticationError",
     message |-> message, status_code |-> 401]

\* AuthorizationError(message): HTTP status 403
AuthorizationError(message) ==
    [kind |-> "raise", type |-> "AuthorizationError",
     message |-> message, status_code |-> 403]

\* ValidationError(message): HTTP status 400
ValidationError(message) ==
    [kind |-> "raise", type |-> "ValidationError",
     message |-> message, status_code |-> 400]

\* what HTTPBearer raises for a request without credentials
NotAuthenticated ==
    [kind |-> "raise", type |-> "HTTPException",
     message |-> "Not authenticated", status_code |-> 403]

\* texts of the exceptions the storage client and the database session raise
S3Faults == {"Error en AWS S3: Error al subir archivo: AccessDenied"}
DbFaults == {"database is locked", "connection reset by peer"}

\* text of the exception db.refresh raises once db.commit has gone through
RefreshFaults == {"server closed the connection unexpectedly"}

\* "database" in str(e).lower() or "sql" in str(e).lower()
MentionsDatabase(text) == text \in {"database is locked"}

\* json.dumps(value, ensure_ascii=False): the text that stands for value
JsonDumps(value) == [json |-> value]

\* the URL upload_file returns with the key
S3Url(s3_key) == <<"https://bucket.s3.region.amazonaws.com/", s3_key>>

\* ------------------------------------------------------------ FileRepository
\* create_file_upload storing no validations
create_file_upload_NoReport(table, req, s3_key, status, vjson, count, now) ==
    Append(table, [id |-> Len(table) + 1,
                   original_filename |-> req.filename,
                   s3_key |-> s3_key, s3_url |-> S3Url(s3_key),
                   status |-> status, validations |-> <<>>,
                   records_count |-> count,
                   categoria |-> req.categoria,
                   descripcion |-> req.descripcion,
                   created_at |-> now])

\* create_file_upload: the id is the position in the table, created_at the
\* time of the insert (server default)
create_file_upload(table, req, s3_key, status, validations_json, count, now) ==
    Append(table, [id |-> Len(table) + 1,
                   original_filename |-> req.filename,
                   s3_key |-> s3_key, s3_url |-> S3Url(s3_key),
                   status |-> status, validations |-> validations_json,
                   records_count |-> count,
                   categoria |-> req.categoria,
                   descripcion |-> req.descripcion,
                   created_at |-> now])

\* update_file_upload_status that leaves records_count as it was
update_file_upload_status_KeepCount(table, file_id, status, vjson, count) ==
    [i \in DOMAIN table |->
        IF table[i].id = file_id
        THEN [table[i] EXCEPT
                !.status = status,
                !.validations = IF vjson # <<>>
                                THEN vjson ELSE @]
        ELSE table[i]]

\* update_file_upload_status: validations and records_count are Optional and
\* written only when given; an unknown id changes nothing
update_file_upload_status(table, file_id, status, validations_json, count) ==
    [i \in DOMAIN table |->
        IF table[i].id = file_id
        THEN [table[i] EXCEPT
                !.status = status,
                !.validations = IF validations_json # <<>>
                                THEN validations_json ELSE @,
                !.records_count = IF count # <<>> THEN count[1] ELSE @]
        ELSE table[i]]

\* create_csv_record
create_csv_record(table, file_upload_id, record_data, num, is_valid, errors) ==
    Append(table, [file_upload_id |-> file_upload_id,
                   record_data |-> record_data,
                   row_number |-> num,
                   is_valid |-> is_valid,
                   validation_errors |-> errors])

\* --------------------------------------- FileService.upload_and_process_csv
\* the condition of the loop over validations without the test of severity
RowHasError_AnySeverity(validation, row_number) ==
    \E k \in DOMAIN validation.affected_rows :
        validation.affected_rows[k] = row_number

\* the condition under which the loop over validations marks a row
RowHasError(validation, row_number) ==
    /\ \E k \in DOMAIN validation.affected_rows :
           validation.affected_rows[k] = row_number
    /\ validation.severity = "error"

\* row_errors after the loop over validations
RECURSIVE RowErrors(_, _, _, _)
RowErrors(vals, row_number, k, row_errors) ==
    IF k > Len(vals) THEN row_errors
    ELSE RowErrors(vals, row_number, k + 1,
             IF RowHasError(vals[k], row_number)
             THEN Append(row_errors, vals[k].message)
             ELSE row_errors)

\* is_valid set for a row listed by a finding of any severity
IsValid_AnySeverity(vals, row_number) ==
    IF \E k \in DOMAIN vals :
          \E m \in DOMAIN vals[k].affected_rows :
              vals[k].affected_rows[m] = row_number
    THEN "false" ELSE "true"

\* is_valid after the loop over validations
IsValid(vals, row_number) ==
    IF \E k \in DOMAIN vals : RowHasError(vals[k], row_number)
    THEN "false" ELSE "true"

\* final_status with warnings counted as errors
FinalStatus_InfoOnly(vals) ==
    IF \A k \in DOMAIN vals : vals[k].severity = "info"
    THEN "completed" ELSE "completed_with_errors"

\* final_status
FinalStatus(vals) ==
    IF \A k \in DOMAIN vals : vals[k].severity # "error"
    THEN "completed" ELSE "completed_with_errors"

VARIABLES
    content,        \* file_content of the request
    request,        \* filename, categoria and descripcion of the request
    credentials,    \* bearer token of the HTTP request, if any
    pc,             \* where the call of upload_and_process_csv stands
    s3_calls,       \* calls made to S3Service, with their outcome
    s3_objects,     \* keys of the objects in the bucket
    s3_key,         \* local: the key upload_file returned
    repo_calls,     \* calls made to FileRepository, with their outcome
    file_uploads,   \* table file_uploads
    csv_records,    \* table csv_records
    validations,    \* local: the list validate_csv returned
    pos,            \* local: lines consumed by csv_reader
    row_number,     \* local: counter of enumerate(csv_reader, start=2)
    records_count,  \* local
    file_upload,    \* local: id of the FileUpload created, if any
    exc,            \* text of the exception caught by the except clause
    result,         \* what the call returned or raised, once it ended
    suspended       \* locals of a second call in progress, if there is one

vars == <<content, request, credentials, pc, s3_calls, s3_objects, repo_calls, file_uploads,
          csv_records, validations, pos, row_number, records_count,
          file_upload, exc, result, s3_key, suspended>>

\* a call that returned (ok) or raised text before it committed anything
Call(op, ok, text) == [op |-> op, ok |-> ok, exc |-> text, committed |-> ok]

\* a repository call that raised text in db.refresh, after db.commit
Interrupted(op, text) ==
    [op |-> op, ok |-> FALSE, exc |-> text, committed |-> TRUE]

Init ==
    /\ IsContent(content, MaxDataLines)
    /\ request \in Requests
    /\ credentials = <<>>
    /\ pc = "upload"
    /\ s3_calls = <<>>
    /\ s3_objects = {}
    /\ repo_calls = <<>>
    /\ file_uploads = <<>>
    /\ csv_records = <<>>
    /\ validations = <<>>
    /\ pos = 0
    /\ row_number = 2
    /\ records_count = 0
    /\ file_upload = <<>>
    /\ exc = <<>>
    /\ result = <<>>
    /\ s3_key = <<>>
    /\ suspended = <<>>

\* step 1, the upload succeeds: s3_key is fresh
S3UploadOk ==
    /\ pc = "upload"
    /\ s3_calls' = Append(s3_calls, Call("upload_file", TRUE, ""))
    /\ s3_objects' = s3_objects \cup {Len(s3_calls) + 1}
    /\ s3_key' = Some(Len(s3_calls) + 1)
    /\ pc' = "validate"
    /\ UNCHANGED <<suspended, content, request, credentials, repo_calls, file_uploads, csv_records, validations,
                   pos, row_number, records_count, file_upload, exc, result>>

\* step 1, the upload raises, re-raised with the default service name
S3UploadFails_DefaultService ==
    /\ pc = "upload"
    /\ \E e \in S3Faults :
        /\ s3_calls' = Append(s3_calls, Call("upload_file", FALSE, e))
        /\ result' = Some(ExternalServiceError(e, "servicio externo"))
    /\ pc' = "raised"
    /\ UNCHANGED <<suspended, s3_key, content, request, credentials, s3_objects, repo_calls, file_uploads, csv_records,
                   validations, pos, row_number, records_count, file_upload,
                   exc>>

\* step 1, the upload raises: re-raised as ExternalServiceError for "AWS S3"
S3UploadFails ==
    /\ pc = "upload"
    /\ \E e \in S3Faults :
        /\ s3_calls' = Append(s3_calls, Call("upload_file", FALSE, e))
        /\ result' = Some(ExternalServiceError(e, "AWS S3"))
    /\ pc' = "raised"
    /\ UNCHANGED <<suspended, s3_key, content, request, credentials, s3_objects, repo_calls, file_uploads, csv_records,
                   validations, pos, row_number, records_count, file_upload,
                   exc>>

\* the assignment of step 2, r being the outcome of validate_csv
Validated(r) ==
    IF r.raised
    THEN /\ result' = Some([kind |-> "raise", type |-> "Exception",
                            message |-> r.exc, status_code |-> 500])
         /\ pc' = "raised"
         /\ UNCHANGED validations
    ELSE /\ validations' = Some(r.value)
         /\ pc' = "decode"
         /\ UNCHANGED result

\* step 2: validate_csv, called outside the try block (an exception of it
\* would leave upload_and_process_csv as it is)
Validate ==
    /\ pc = "validate"
    /\ Validated(validate_csv(content))
    /\ UNCHANGED <<suspended, s3_key, content, request, credentials, s3_calls, s3_objects, repo_calls, file_uploads,
                   csv_records, pos, row_number, records_count, file_upload,
                   exc>>

\* step 3 raising UnicodeDecodeError, with the uploaded object deleted
DecodeFails_DeleteObject ==
    /\ pc = "decode"
    /\ ~content.utf8
    /\ s3_calls' = Append(s3_calls, Call("delete_file", TRUE, ""))
    /\ s3_objects' = s3_objects \ {s3_key[1]}
    /\ exc' = Some(UnicodeDecodeErrorText)
    /\ pc' = "except"
    /\ UNCHANGED <<suspended, s3_key, content, request, credentials,
                   repo_calls, file_uploads, csv_records, validations, pos,
                   row_number, records_count, file_upload, result>>

\* step 3, file_content.decode('utf-8') raises UnicodeDecodeError
DecodeFails ==
    /\ pc = "decode"
    /\ ~content.utf8
    /\ exc' = Some(UnicodeDecodeErrorText)
    /\ pc' = "except"
    /\ UNCHANGED <<suspended, s3_key, content, request, credentials, s3_calls, s3_objects, repo_calls, file_uploads,
                   csv_records, validations, pos, row_number, records_count,
                   file_upload, result>>

\* step 3, the FileUpload is created with status processing
CreateFileUpload ==
    /\ pc = "decode"
    /\ content.utf8
    /\ \/ /\ repo_calls' = Append(repo_calls,
                                  Call("create_file_upload", TRUE, ""))
          /\ file_uploads' = create_file_upload(file_uploads, request,
                                 s3_key[1], "processing",
                                 Some(JsonDumps(validations[1])), 0,
                                 Len(s3_calls) + Len(repo_calls))
          /\ file_upload' = Some(Len(file_uploads) + 1)
          /\ pc' = "rows"
          /\ UNCHANGED exc
       \/ \E e \in DbFaults :
          /\ repo_calls' = Append(repo_calls,
                                  Call("create_file_upload", FALSE, e))
          /\ exc' = Some(e)
          /\ pc' = "except"
          /\ UNCHANGED <<file_uploads, file_upload>>
       \/ \E e \in RefreshFaults :
          /\ repo_calls' = Append(repo_calls,
                                  Interrupted("create_file_upload", e))
          /\ file_uploads' = create_file_upload(file_uploads, request,
                                 s3_key[1], "processing",
                                 Some(JsonDumps(validations[1])), 0,
                                 Len(s3_calls) + Len(repo_calls))
          /\ exc' = Some(e)
          /\ pc' = "except"
          /\ UNCHANGED file_upload
    /\ UNCHANGED <<suspended, s3_key, content, request, credentials, s3_calls, s3_objects, csv_records, validations,
                   pos, row_number, records_count, result>>

\* validation_errors of a row: the JSON text of row_errors, or None
ValidationErrors(row_errors) ==
    IF row_errors # <<>> THEN Some(JsonDumps(row_errors)) ELSE <<>>

\* the body of the loop for the row n.row read by csv_reader
PersistRow(n) ==
    \/ /\ repo_calls' = Append(repo_calls, Call("create_csv_record", TRUE, ""))
       /\ csv_records' = create_csv_record(csv_records, file_upload[1],
                             JsonDumps(n.row), row_number,
                             IsValid(validations[1], row_number),
                             ValidationErrors(RowErrors(validations[1],
                                                        row_number, 1, <<>>)))
       /\ records_count' = records_count + 1
       /\ row_number' = row_number + 1
       /\ pos' = n.pos
       /\ UNCHANGED <<pc, exc>>
    \/ \E e \in DbFaults :
       /\ repo_calls' = Append(repo_calls, Call("create_csv_record", FALSE, e))
       /\ exc' = Some(e)
       /\ pc' = "except"
       /\ pos' = n.pos
       /\ UNCHANGED <<csv_records, records_count, row_number>>
    \/ \E e \in RefreshFaults :
       /\ repo_calls' = Append(repo_calls,
                               Interrupted("create_csv_record", e))
       /\ csv_records' = create_csv_record(csv_records, file_upload[1],
                             JsonDumps(n.row), row_number,
                             IsValid(validations[1], row_number),
                             ValidationErrors(RowErrors(validations[1],
                                                        row_number, 1, <<>>)))
       /\ exc' = Some(e)
       /\ pc' = "except"
       /\ pos' = n.pos
       /\ UNCHANGED <<records_count, row_number>>

\* one pass of the loop over csv_reader
ProcessRow ==
    /\ pc = "rows"
    /\ ReaderNext(content.lines, pos).kind = "row"
    /\ PersistRow(ReaderNext(content.lines, pos))
    /\ UNCHANGED <<suspended, s3_key, content, request, credentials, s3_calls, s3_objects, file_uploads, validations,
                   file_upload, result>>

\* csv_reader raises csv.Error inside the loop
ReaderRaises ==
    /\ pc = "rows"
    /\ ReaderNext(content.lines, pos).kind = "error"
    /\ pos' = ReaderNext(content.lines, pos).pos
    /\ exc' = Some(CsvErrorText)
    /\ pc' = "except"
    /\ UNCHANGED <<suspended, s3_key, content, request, credentials, s3_calls, s3_objects, repo_calls, file_uploads,
                   csv_records, validations, row_number, records_count,
                   file_upload, result>>

\* the final update and the return, for the final_status computed
Finish(final_status) ==
    \/ /\ repo_calls' = Append(repo_calls,
                               Call("update_file_upload_status", TRUE, ""))
       /\ file_uploads' = update_file_upload_status(file_uploads,
                              file_upload[1], final_status,
                              Some(JsonDumps(validations[1])),
                              Some(records_count))
       /\ result' = Some([kind |-> "return",
                          file_id |-> file_upload[1],
                          filename |-> request.filename,
                          s3_url |-> S3Url(s3_key[1]),
                          status |-> final_status,
                          validations |-> validations[1],
                          records_count |-> records_count,
                          categoria |-> request.categoria,
                          descripcion |-> request.descripcion,
                          uploaded_at |->
                              file_uploads[file_upload[1]].created_at])
       /\ pc' = "returned"
       /\ UNCHANGED exc
    \/ \E e \in DbFaults :
       /\ repo_calls' = Append(repo_calls,
                               Call("update_file_upload_status", FALSE, e))
       /\ exc' = Some(e)
       /\ pc' = "except"
       /\ UNCHANGED <<file_uploads, result>>
    \/ \E e \in RefreshFaults :
       /\ repo_calls' = Append(repo_calls,
                               Interrupted("update_file_upload_status", e))
       /\ file_uploads' = update_file_upload_status(file_uploads,
                              file_upload[1], final_status,
                              Some(JsonDumps(validations[1])),
                              Some(records_count))
       /\ exc' = Some(e)
       /\ pc' = "except"
       /\ UNCHANGED result

\* the final status written before the reader is exhausted
Finalize_Early ==
    /\ pc = "rows"
    /\ Finish(FinalStatus(validations[1]))
    /\ UNCHANGED <<suspended, s3_key, content, request, credentials, s3_calls, s3_objects,
                   csv_records, validations, pos, row_number, records_count,
                   file_upload>>

\* the loop is over: the final status is written and the payload returned
Finalize ==
    /\ pc = "rows"
    /\ ReaderNext(content.lines, pos).kind = "stop"
    /\ Finish(FinalStatus(validations[1]))
    /\ UNCHANGED <<suspended, s3_key, content, request, credentials, s3_calls, s3_objects, csv_records, validations,
                   pos, row_number, records_count, file_upload>>

\* the entry of the except clause without the text of the exception
ProcessingError_NoText(text) ==
    [validation_type |-> "processing_error", message |-> "Error"]

\* the entry written by the except clause
ProcessingError(text) ==
    [validation_type |-> "processing_error", message |-> text]

\* the except clause raising the exception it caught as it is
ProcessingFailure_Reraise(text) ==
    [kind |-> "raise", type |-> "Exception", message |-> text,
     status_code |-> 500]

\* the error the except clause raises
ProcessingFailure(text) ==
    IF MentionsDatabase(text)
    THEN DatabaseError("Error al procesar archivo: " \o text)
    ELSE ExternalServiceError("Error al procesar archivo: " \o text,
                              "procesamiento")

\* the except clause letting the exception of its own update decide the
\* error raised
HandleException_LastError ==
    /\ pc = "except"
    /\ IF file_upload # <<>>
       THEN \/ /\ repo_calls' = Append(repo_calls,
                       Call("update_file_upload_status", TRUE, ""))
               /\ file_uploads' = update_file_upload_status(file_uploads,
                       file_upload[1], "error",
                       Some(JsonDumps(<<ProcessingError(exc[1])>>)), <<>>)
               /\ result' = Some(ProcessingFailure(exc[1]))
            \/ \E e \in DbFaults :
               /\ repo_calls' = Append(repo_calls,
                       Call("update_file_upload_status", FALSE, e))
               /\ result' = Some(ProcessingFailure(e))
               /\ UNCHANGED file_uploads
            \/ \E e \in RefreshFaults :
               /\ repo_calls' = Append(repo_calls,
                       Interrupted("update_file_upload_status", e))
               /\ file_uploads' = update_file_upload_status(file_uploads,
                       file_upload[1], "error",
                       Some(JsonDumps(<<ProcessingError(exc[1])>>)), <<>>)
               /\ result' = Some(ProcessingFailure(e))
       ELSE /\ result' = Some(ProcessingFailure(exc[1]))
            /\ UNCHANGED <<repo_calls, file_uploads>>
    /\ pc' = "raised"
    /\ UNCHANGED <<suspended, s3_key, content, request, credentials, s3_calls, s3_objects, csv_records, validations,
                   pos, row_number, records_count, file_upload, exc>>

\* the except clause: best-effort update to status error, then re-raise
HandleException ==
    /\ pc = "except"
    /\ IF file_upload # <<>>
       THEN \/ /\ repo_calls' = Append(repo_calls,
                       Call("update_file_upload_status", TRUE, ""))
               /\ file_uploads' = update_file_upload_status(file_uploads,
                       file_upload[1], "error",
                       Some(JsonDumps(<<ProcessingError(exc[1])>>)), <<>>)
            \/ \E e \in DbFaults :
               /\ repo_calls' = Append(repo_calls,
                       Call("update_file_upload_status", FALSE, e))
               /\ UNCHANGED file_uploads
            \/ \E e \in RefreshFaults :
               /\ repo_calls' = Append(repo_calls,
                       Interrupted("update_file_upload_status", e))
               /\ file_uploads' = update_file_upload_status(file_uploads,
                       file_upload[1], "error",
                       Some(JsonDumps(<<ProcessingError(exc[1])>>)), <<>>)
       ELSE UNCHANGED <<repo_calls, file_uploads>>
    /\ result' = Some(ProcessingFailure(exc[1]))
    /\ pc' = "raised"
    /\ UNCHANGED <<suspended, s3_key, content, request, credentials, s3_calls, s3_objects, csv_records, validations,
                   pos, row_number, records_count, file_upload, exc>>

Next ==
    \/ S3UploadOk
    \/ S3UploadFails
    \/ Validate
    \/ DecodeFails
    \/ CreateFileUpload
    \/ ProcessRow
    \/ ReaderRaises
    \/ Finalize
    \/ HandleException

Spec == Init /\ [][Next]_vars

\* ------------------------------------------------- validate_csv called alone
\* CSVValidator.validate_csv(file_content) called on its own, as the tests of
\* the validator do: no storage, no repository
CheckInit ==
    /\ \/ content \in NoLines
       \/ \E h \in CheckHeaders, n \in 0..MaxCheckLines :
              \E d \in [1..n -> CheckLines] : content = CheckContent(h, d)
    /\ request = Unlabelled("test.csv")
    /\ credentials = <<>>
    /\ pc = "call"
    /\ s3_calls = <<>>
    /\ s3_objects = {}
    /\ repo_calls = <<>>
    /\ file_uploads = <<>>
    /\ csv_records = <<>>
    /\ validations = <<>>
    /\ pos = 0
    /\ row_number = 2
    /\ records_count = 0
    /\ file_upload = <<>>
    /\ exc = <<>>
    /\ result = <<>>
    /\ s3_key = <<>>
    /\ suspended = <<>>

\* the call returns its list of findings
CallValidate ==
    /\ pc = "call"
    /\ ~validate_csv(content).raised
    /\ validations' = Some(validate_csv(content).value)
    /\ pc' = "called"
    /\ UNCHANGED <<suspended, s3_key, content, request, credentials, s3_calls, s3_objects, repo_calls, file_uploads,
                   csv_records, pos, row_number, records_count, file_upload,
                   exc, result>>

CheckNext == CallValidate

CheckSpec == CheckInit /\ [][CheckNext]_vars

\* ------------------------------------------------------ POST /files/upload
\* settings.ALLOWED_ROLES_FOR_FILE_UPLOAD
ALLOWED_ROLES_FOR_FILE_UPLOAD == {"admin", "uploader"}

\* AuthService.verify_token: the TokenData, or None for a token that does
\* not decode
verify_token(token) ==
    IF token.valid THEN Some([rol |-> token.rol]) ELSE <<>>

\* the test of role_checker that lets every role pass
RoleDenied_Never(rol, allowed_roles) == FALSE

\* the test of role_checker
RoleDenied(rol, allowed_roles) == rol \notin allowed_roles

\* file.filename.endswith('.csv')
EndsWithCsv(filename) == filename \in {"test.csv"}

\* len(file_content) == 0
IsEmptyContent(c) == c.utf8 /\ c.lines = <<>>

\* the request fails with the exception e before upload_file's work begins
Rejected(e) ==
    /\ result' = Some(e)
    /\ pc' = "raised"

ApiInit ==
    /\ IsContent(content, ApiDataLines)
    /\ request \in { Unlabelled(f) : f \in Filenames }
    /\ credentials \in { <<>> } \cup { Some(t) : t \in Tokens }
    /\ pc = "request"
    /\ s3_calls = <<>>
    /\ s3_objects = {}
    /\ repo_calls = <<>>
    /\ file_uploads = <<>>
    /\ csv_records = <<>>
    /\ validations = <<>>
    /\ pos = 0
    /\ row_number = 2
    /\ records_count = 0
    /\ file_upload = <<>>
    /\ exc = <<>>
    /\ result = <<>>
    /\ s3_key = <<>>
    /\ suspended = <<>>

\* the dependency require_role(ALLOWED_ROLES_FOR_FILE_UPLOAD): HTTPBearer,
\* get_current_user, role_checker
RequireRole ==
    /\ pc = "request"
    /\ IF credentials = <<>>
       THEN Rejected(NotAuthenticated)
       ELSE IF verify_token(credentials[1]) = <<>>
       THEN Rejected(AuthenticationError("Token invalido o expirado"))
       ELSE IF RoleDenied(verify_token(credentials[1])[1].rol,
                          ALLOWED_ROLES_FOR_FILE_UPLOAD)
       THEN Rejected(AuthorizationError(
                "Acceso denegado. Se requiere uno de los siguientes roles: "
                    \o "admin, uploader"))
       ELSE pc' = "handler" /\ UNCHANGED result
    /\ UNCHANGED <<suspended, s3_key, content, request, credentials, s3_calls, s3_objects,
                   repo_calls, file_uploads, csv_records, validations, pos,
                   row_number, records_count, file_upload, exc>>

\* upload_file before it calls the service: the name and the size of the
\* file (the contents considered are all below MAX_FILE_SIZE)
CheckFile ==
    /\ pc = "handler"
    /\ IF request.filename = "" \/ ~EndsWithCsv(request.filename)
       THEN Rejected(ValidationError("El archivo debe ser un CSV (.csv)"))
       ELSE IF IsEmptyContent(content)
       THEN Rejected(ValidationError("El archivo esta vacio"))
       ELSE pc' = "upload" /\ UNCHANGED result
    /\ UNCHANGED <<suspended, s3_key, content, request, credentials, s3_calls, s3_objects,
                   repo_calls, file_uploads, csv_records, validations, pos,
                   row_number, records_count, file_upload, exc>>

\* the request, then the steps of upload_and_process_csv
ApiNext ==
    \/ RequireRole
    \/ CheckFile
    \/ S3UploadOk
    \/ S3UploadFails
    \/ Validate
    \/ DecodeFails
    \/ CreateFileUpload
    \/ ProcessRow
    \/ ReaderRaises
    \/ Finalize
    \/ HandleException

ApiSpec == ApiInit /\ [][ApiNext]_vars

\* ------------------------------------------------------------- properties
\* the rows list(csv_reader) gives for a decodable content
Parsed(c) == ReadAll(c.lines, 0, <<>>)

\* K: the lines after the first that are neither blank nor malformed
DataRowCount(c) ==
    Cardinality({ i \in 2..Len(c.lines) :
                    ~c.lines[i].bad /\ c.lines[i].cells # <<>> })

\* the content decodes and has only a first line, or no line at all, besides
\* blank lines
ZeroDataRows(c) ==
    /\ c.utf8
    /\ \A i \in DOMAIN c.lines : ~c.lines[i].bad
    /\ \A i \in 2..Len(c.lines) : c.lines[i].cells = <<>>

\* the content decodes, parses and has at least one data row
HasDataRows(c) == c.utf8 /\ ~Parsed(c).error /\ Parsed(c).rows # <<>>

StorageFailed == s3_calls # <<>> /\ ~s3_calls[1].ok
StorageSucceeded == s3_calls # <<>> /\ s3_calls[1].ok
NoRepositoryFault == \A i \in DOMAIN repo_calls : repo_calls[i].ok

HasType(vals, type) == \E k \in DOMAIN vals : vals[k].validation_type = type
HasSeverity(vals, sev) == \E k \in DOMAIN vals : vals[k].severity = sev
Lists(validation, n) ==
    \E m \in DOMAIN validation.affected_rows : validation.affected_rows[m] = n

\* the csv_records of one upload
RecordsOf(file_id) ==
    { i \in DOMAIN csv_records : csv_records[i].file_upload_id = file_id }

\* C1: when the storage upload raises, the call raises an
\* ExternalServiceError whose message names "AWS S3" and carries the storage
\* error, and no repository call was made: no FileUpload, no CSVRecord.
C1_StorageFailure ==
    StorageFailed =>
        /\ pc = "raised"
        /\ result # <<>>
        /\ result[1].kind = "raise"
        /\ result[1].type = "ExternalServiceError"
        /\ result[1].message = "Error en AWS S3: " \o s3_calls[1].exc
        /\ repo_calls = <<>>
        /\ file_uploads = <<>>
        /\ csv_records = <<>>

C1_Witness == StorageFailed /\ pc = "raised"

\* C2: when the call returns, the status returned and the status of the
\* FileUpload are completed exactly if no finding has severity error, and
\* completed_with_errors otherwise; warnings alone leave it completed.
C2_FinalStatus ==
    pc = "returned" =>
        LET r == result[1]
            rec == file_uploads[r.file_id]
        IN  /\ rec.status = r.status
            /\ r.status \in {"completed", "completed_with_errors"}
            /\ (r.status = "completed") <=> ~HasSeverity(r.validations, "error")

C2_Witness ==
    /\ pc = "returned"
    /\ result[1].status = "completed"
    /\ HasSeverity(result[1].validations, "warning")

\* C3: a persisted CSVRecord has is_valid "false" exactly if a finding of
\* severity error lists its row_number, and "true" otherwise.
C3_RowValidity ==
    \A i \in DOMAIN csv_records :
        LET rec == csv_records[i]
            flagged == \E k \in DOMAIN validations[1] :
                          /\ validations[1][k].severity = "error"
                          /\ Lists(validations[1][k], rec.row_number)
        IN  /\ rec.is_valid \in {"true", "false"}
            /\ (rec.is_valid = "false") <=> flagged

C3_Witness ==
    \E i, j \in DOMAIN csv_records :
        /\ csv_records[i].is_valid = "false"
        /\ csv_records[j].is_valid = "true"
        /\ \E k \in DOMAIN validations[1] :
              /\ validations[1][k].severity = "warning"
              /\ Lists(validations[1][k], csv_records[j].row_number)

\* C4: when the call returns for a content with K data rows, the
\* records_count returned and the one of the FileUpload are K, and K
\* CSVRecords exist for the upload.
C4_RecordsCount ==
    pc = "returned" =>
        LET r == result[1]
            K == DataRowCount(content)
        IN  /\ r.records_count = K
            /\ file_uploads[r.file_id].records_count = K
            /\ Cardinality(RecordsOf(r.file_id)) = K

C4_Witness ==
    /\ pc = "returned"
    /\ DataRowCount(content) = 2
    /\ Len(content.lines) = 3
    /\ result[1].records_count = 2

\* C5: with K data rows, the row_number of every CSVRecord and every row in
\* a finding's affected_rows is in 2..K+1; the CSVRecords of an upload have
\* distinct row numbers; after a return the row numbers are exactly 2..K+1.
C5_RowNumbers ==
    LET K == DataRowCount(content) IN
    /\ \A i \in DOMAIN csv_records : csv_records[i].row_number \in 2..(K + 1)
    /\ \A i, j \in DOMAIN csv_records :
          (/\ i # j
           /\ csv_records[i].file_upload_id = csv_records[j].file_upload_id)
          => csv_records[i].row_number # csv_records[j].row_number
    /\ validations # <<>> =>
          \A k \in DOMAIN validations[1] :
              \A m \in DOMAIN validations[1][k].affected_rows :
                  validations[1][k].affected_rows[m] \in 2..(K + 1)
    /\ pc = "returned" =>
          { csv_records[i].row_number : i \in RecordsOf(result[1].file_id) }
              = 2..(K + 1)

C5_Witness ==
    /\ pc = "returned"
    /\ DataRowCount(content) = 2
    /\ \E k \in DOMAIN validations[1] :
          Lists(validations[1][k], 2) /\ Lists(validations[1][k], 3)

\* C6: for a content without data rows, once the storage upload succeeded
\* and no repository call fails, the call returns completed_with_errors with
\* records_count 0, one FileUpload exists, no CSVRecord is ever persisted,
\* and the findings are the single empty_file entry (error, no rows).
C6_ZeroDataRows ==
    ZeroDataRows(content) =>
        /\ csv_records = <<>>
        /\ validations # <<>> =>
              /\ Len(validations[1]) = 1
              /\ validations[1][1].validation_type = "empty_file"
              /\ validations[1][1].severity = "error"
              /\ validations[1][1].affected_rows = <<>>
        /\ (pc \in {"returned", "raised"} /\ StorageSucceeded
              /\ NoRepositoryFault) =>
              /\ pc = "returned"
              /\ Len(file_uploads) = 1
              /\ file_uploads[1].status = "completed_with_errors"
              /\ file_uploads[1].records_count = 0
              /\ result[1].status = "completed_with_errors"
              /\ result[1].records_count = 0
              /\ result[1].validations = validations[1]

C6_Witness ==
    /\ pc = "returned"
    /\ ZeroDataRows(content)
    /\ Len(content.lines) = 1

\* C7: when decoding fails or the try block of validate_csv is left by an
\* exception, the result is exactly one finding, parse_error with severity
\* error and no rows; parse_error never comes with another finding.
C7_ParseErrorAlone ==
    validations # <<>> =>
        LET vals == validations[1] IN
        /\ HasType(vals, "parse_error") => Len(vals) = 1
        /\ ValidateTry(content).raised =>
              /\ Len(vals) = 1
              /\ vals[1].validation_type = "parse_error"
              /\ vals[1].severity = "error"
              /\ vals[1].affected_rows = <<>>

\* C8: validate_csv never raises and returns a non-empty list: once the
\* validation step is over the list is there with at least one entry, and
\* the call never ends with an exception other than the application errors.
C8_NeverRaises ==
    /\ (StorageSucceeded /\ pc # "validate") =>
          validations # <<>> /\ Len(validations[1]) >= 1
    /\ (result # <<>> /\ result[1].kind = "raise") =>
          result[1].type \in {"ExternalServiceError", "DatabaseError"}

C8_Witness ==
    /\ validations # <<>>
    /\ ValidateTry(content).raised
    /\ content.utf8

\* the four checks on the rows of a content, as they answer when called
ChecksOf(c) ==
    LET rows == Parsed(c).rows
        fieldnames == Fieldnames(c.lines)
        dup == check_duplicates(rows)
    IN  [empty_values |-> check_empty_values(rows, fieldnames),
         incorrect_types |-> check_incorrect_types(rows, fieldnames),
         duplicates |-> IF dup.raised THEN <<>> ELSE dup.value,
         invalid_format |-> check_invalid_format(rows, fieldnames)]

NoneFlagged(c) ==
    /\ ChecksOf(c).empty_values = <<>>
    /\ ChecksOf(c).incorrect_types = <<>>
    /\ ChecksOf(c).duplicates = <<>>
    /\ ChecksOf(c).invalid_format = <<>>

\* C9: for a decodable content with data rows, the result has a success
\* finding exactly if none of the four checks flagged a row, and then the
\* success finding (info, no rows) is the whole result.
C9_SuccessAlone ==
    (validations # <<>> /\ HasDataRows(content)) =>
        LET vals == validations[1] IN
        /\ HasType(vals, "success") <=> NoneFlagged(content)
        /\ HasType(vals, "success") =>
              /\ Len(vals) = 1
              /\ vals[1].severity = "info"
              /\ vals[1].affected_rows = <<>>

\* type, rows and severity of the entries of a list of findings
Short(vals) ==
    [k \in DOMAIN vals |-> <<vals[k].validation_type, vals[k].affected_rows,
                             vals[k].severity>>]

CheckTypes == {"empty_values", "incorrect_types", "duplicates",
               "invalid_format"}

\* the entries of the four checks, in the order of the list
RECURSIVE CheckEntries(_)
CheckEntries(vals) ==
    IF vals = <<>> THEN <<>>
    ELSE IF Head(vals)[1] \in CheckTypes
    THEN <<Head(vals)>> \o CheckEntries(Tail(vals))
    ELSE CheckEntries(Tail(vals))

\* one entry per check that flagged a row, in the fixed order
ExpectedEntries(c) ==
    LET ch == ChecksOf(c)
        Entry(type, rows, sev) ==
            IF rows # <<>> THEN << <<type, rows, sev>> >> ELSE <<>>
    IN  Entry("empty_values", ch.empty_values, "warning")
            \o Entry("incorrect_types", ch.incorrect_types, "error")
            \o Entry("duplicates", ch.duplicates, "warning")
            \o Entry("invalid_format", ch.invalid_format, "error")

\* C10: for a decodable content with data rows, the findings of the four
\* checks come in the order empty_values (warning), incorrect_types (error),
\* duplicates (warning), invalid_format (error), one for each check that
\* flagged a row and none for the others, with the rows the check flagged.
C10_CheckFindings ==
    (validations # <<>> /\ HasDataRows(content)) =>
        CheckEntries(Short(validations[1])) = ExpectedEntries(content)

\* the numbers of a set in ascending order
RECURSIVE Ascending(_)
Ascending(S) ==
    IF S = {} THEN <<>>
    ELSE LET m == CHOOSE x \in S : \A y \in S : x <= y
         IN  <<m>> \o Ascending(S \ {m})

\* affected_rows of the finding of a type, <<>> when the list has none
RowsOf(vals, type) ==
    IF HasType(vals, type)
    THEN vals[CHOOSE k \in DOMAIN vals : vals[k].validation_type = type]
             .affected_rows
    ELSE <<>>

\* the rows with an earlier row of the same (column, value) pairs
RepeatedRows(rows) ==
    { i + 1 : i \in { n \in DOMAIN rows : \E j \in 1..(n - 1) :
                                             rows[j] = rows[n] } }

\* C11: for a decodable content with data rows, the duplicates finding lists
\* exactly the rows that have an earlier row with the same (column, value)
\* pairs, in ascending order: the first occurrence is never listed, every
\* later one is.
C11_Duplicates ==
    (validations # <<>> /\ HasDataRows(content)) =>
        RowsOf(validations[1], "duplicates")
            = Ascending(RepeatedRows(Parsed(content).rows))

\* the cells of the lines after the first that are not blank, one per data
\* row, as they stand in the file
DataCells(c) ==
    LET NotBlank(l) == l.cells # <<>>
        data == SelectSeq(SubSeq(c.lines, 2, Len(c.lines)), NotBlank)
    IN  [k \in DOMAIN data |-> data[k].cells]

\* the rows whose number of cells is not the number of columns of the header
MiscountedRows(c) ==
    { k + 1 : k \in { n \in DOMAIN DataCells(c) :
                         Len(DataCells(c)[n]) # Len(Fieldnames(c.lines)) } }

\* C12: for a decodable content with data rows, the rows with fewer or more
\* cells than the header has columns are exactly the rows listed by the
\* invalid_format finding, which has severity error.
C12_InvalidFormat ==
    (validations # <<>> /\ HasDataRows(content)) =>
        LET vals == validations[1] IN
        /\ RowsOf(vals, "invalid_format")
              = Ascending(MiscountedRows(content))
        /\ \A k \in DOMAIN vals :
              vals[k].validation_type = "invalid_format"
                  => vals[k].severity = "error"

\* the rows that have, for some column of the header, a cell that is empty
\* once trimmed, or no cell at all
RowsWithEmpty(c) ==
    { k + 1 : k \in { n \in DOMAIN DataCells(c) :
                         \E p \in DOMAIN Fieldnames(c.lines) :
                             \/ p > Len(DataCells(c)[n])
                             \/ StripIsEmpty(DataCells(c)[n][p]) } }

\* C13: for a decodable content with data rows, the empty_values finding
\* lists exactly the rows in which some column of the header has a value
\* that is empty after trimming or has no value, each once, ascending.
C13_EmptyValues ==
    (validations # <<>> /\ HasDataRows(content)) =>
        RowsOf(validations[1], "empty_values")
            = Ascending(RowsWithEmpty(content))

\* the rows in which a cell under a column whose name contains "id" or
\* "numero" is not empty and is not the text of a number
RowsWithBadNumber(c) ==
    { k + 1 : k \in { n \in DOMAIN DataCells(c) :
                         \E p \in DOMAIN Fieldnames(c.lines) :
                             /\ p <= Len(DataCells(c)[n])
                             /\ IsNumericField(Fieldnames(c.lines)[p])
                             /\ DataCells(c)[n][p] # ""
                             /\ ~ParsesAsFloat(DataCells(c)[n][p]) } }

FailedThenMarked ==
    /\ file_upload # <<>>
    /\ Len(repo_calls) >= 2
    /\ ~repo_calls[Len(repo_calls) - 1].ok
    /\ repo_calls[Len(repo_calls) - 1].op
          \in {"create_csv_record", "update_file_upload_status"}
    /\ repo_calls[Len(repo_calls)].ok
    /\ repo_calls[Len(repo_calls)].op = "update_file_upload_status"

\* C15: when a row insert or the final update raises after the FileUpload
\* was created and the status update that follows succeeds, the FileUpload
\* has status error, its validations are the single processing_error entry
\* with the text of the exception, and the call raises.
C15_ErrorRecorded ==
    FailedThenMarked =>
        /\ pc = "raised"
        /\ result # <<>>
        /\ result[1].kind = "raise"
        /\ file_uploads[file_upload[1]].status = "error"
        /\ file_uploads[file_upload[1]].validations
              = Some(JsonDumps(<<[validation_type |-> "processing_error",
                                  message |->
                                      repo_calls[Len(repo_calls) - 1].exc]>>))

C15_Witness ==
    /\ FailedThenMarked
    /\ repo_calls[Len(repo_calls) - 1].op = "create_csv_record"
    /\ Len(csv_records) = 1

\* the update of the except clause raised as well
MarkingFailed ==
    /\ file_upload # <<>>
    /\ repo_calls # <<>>
    /\ ~repo_calls[Len(repo_calls)].ok
    /\ repo_calls[Len(repo_calls)].op = "update_file_upload_status"

Ended == pc \in {"returned", "raised"}

\* C17: once the storage upload succeeded, a FileUpload exists when the call
\* ends, whether it returns or raises and whatever the content, unless the
\* repository refused to create it.
C17_RecordExists ==
    (Ended /\ StorageSucceeded
           /\ \A i \in DOMAIN repo_calls :
                  repo_calls[i].op = "create_file_upload" => repo_calls[i].ok)
        => Len(file_uploads) >= 1

\* the keys of the dict upload_and_process_csv returns
PayloadKeys ==
    {"kind", "file_id", "filename", "s3_url", "status", "validations",
     "records_count", "categoria", "descripcion", "uploaded_at"}

\* the call returned the payload of a processed file
ReturnedPayload ==
    /\ pc = "returned"
    /\ result[1].kind = "return"
    /\ DOMAIN result[1] = PayloadKeys
    /\ result[1].status \in {"completed", "completed_with_errors"}
    /\ result[1].filename = request.filename
    /\ result[1].categoria = request.categoria
    /\ result[1].descripcion = request.descripcion
    /\ result[1].s3_url = file_uploads[result[1].file_id].s3_url
    /\ result[1].uploaded_at = file_uploads[result[1].file_id].created_at

\* the call raised one of the two application errors
RaisedApplicationError ==
    /\ pc = "raised"
    /\ result[1].kind = "raise"
    /\ result[1].type \in {"ExternalServiceError", "DatabaseError"}

\* how far the call has come
StageOf(p) ==
    CASE p = "upload" -> 0
      [] p = "validate" -> 1
      [] p = "decode" -> 2
      [] p = "rows" -> 3
      [] p = "except" -> 4
      [] OTHER -> 5

\* a step other than the validation step (whose only condition is that the
\* call stands before it) can be taken
CanStep ==
    ENABLED (\/ S3UploadOk \/ S3UploadFails \/ DecodeFails
             \/ CreateFileUpload \/ ProcessRow \/ ReaderRaises
             \/ Finalize \/ HandleException)

PipelineRan ==
    \/ pc \in {"upload", "validate", "decode", "rows", "except", "returned"}
    \/ s3_calls # <<>>
    \/ s3_objects # {}
    \/ repo_calls # <<>>
    \/ file_uploads # <<>>
    \/ csv_records # <<>>

\* the token of the request is valid and carries the role admin or uploader
MayUpload ==
    /\ credentials # <<>>
    /\ credentials[1].valid
    /\ credentials[1].rol \in {"admin", "uploader"}

\* C20: POST /files/upload runs the pipeline only for a request whose token
\* is valid and carries the role admin or uploader and whose filename ends
\* in .csv; any other request ends with an authentication, authorization or
\* validation error and no storage upload, FileUpload or CSVRecord.
C20_UploadGuard ==
    /\ PipelineRan => (MayUpload /\ request.filename = "test.csv")
    /\ (Ended /\ credentials # <<>> /\ ~credentials[1].valid) =>
          result[1].type = "AuthenticationError" /\ result[1].status_code = 401
    /\ (Ended /\ credentials # <<>> /\ credentials[1].valid /\ ~MayUpload) =>
          result[1].type = "AuthorizationError" /\ result[1].status_code = 403
    /\ (Ended /\ credentials = <<>>) => result[1].status_code = 403
    /\ (Ended /\ MayUpload /\ request.filename # "test.csv") =>
          result[1].type = "ValidationError" /\ result[1].status_code = 400

\* a valid token of another role was turned away and nothing was touched
C20_Witness ==
    /\ pc = "raised"
    /\ credentials = Some([valid |-> TRUE, rol |-> "user"])
    /\ request.filename = "test.csv"
    /\ HasDataRows(content)
    /\ result[1].type = "AuthorizationError"
    /\ s3_calls = <<>>
    /\ file_uploads = <<>>

\* the positions, in the file, of the lines that hold a data row (the first
\* line is line 1)
DataLinePositions(c) ==
    { i \in 2..Len(c.lines) : ~c.lines[i].bad /\ c.lines[i].cells # <<>> }

\* C21: the row_number of every CSVRecord and every row number listed by a
\* finding is the position of that row's line in the file, the first line
\* being line 1, also when blank lines come before or between the data rows:
\* the line at that position holds a data row, and the record holds its
\* content.
C21_PhysicalLines ==
    (content.utf8 /\ content.lines # <<>> /\ ~content.lines[1].bad) =>
        /\ \A i \in DOMAIN csv_records :
              /\ csv_records[i].row_number \in DataLinePositions(content)
              /\ csv_records[i].record_data
                    = JsonDumps(DictRow(Fieldnames(content.lines),
                          content.lines[csv_records[i].row_number].cells))
        /\ validations # <<>> =>
              \A k \in DOMAIN validations[1] :
                  \A m \in DOMAIN validations[1][k].affected_rows :
                      validations[1][k].affected_rows[m]
                          \in DataLinePositions(content)

\* C22: a FileUpload with status processing has records_count 0 and no
\* validations: the report is written first by the final update or by the
\* update of the except clause.
C22_ReportUnset ==
    \A i \in DOMAIN file_uploads :
        file_uploads[i].status = "processing" =>
            /\ file_uploads[i].records_count = 0
            /\ file_uploads[i].validations = <<>>

\* C22 as the code has it: a FileUpload with status processing has
\* records_count 0 and holds, from its creation on and while the rows are
\* persisted, the JSON text of the list validate_csv returned.
C22_ReportAtCreation ==
    \A i \in DOMAIN file_uploads :
        file_uploads[i].status = "processing" =>
            /\ file_uploads[i].records_count = 0
            /\ file_uploads[i].validations = Some(JsonDumps(validations[1]))

\* a row was persisted and the FileUpload is still in processing
C22_Witness ==
    /\ pc = "rows"
    /\ Len(csv_records) = 1
    /\ file_uploads[1].status = "processing"
    /\ file_uploads[1].validations # <<>>

\* C23: the CSVRecords of a run are persisted one by one in increasing
\* row_number order, each for a FileUpload that exists, and a FileUpload has
\* status completed or completed_with_errors only once all K data rows have
\* their CSVRecord.
C23_RowsBeforeStatus ==
    /\ \A i \in DOMAIN csv_records :
          /\ csv_records[i].row_number = i + 1
          /\ \E u \in DOMAIN file_uploads :
                file_uploads[u].id = csv_records[i].file_upload_id
    /\ \A u \in DOMAIN file_uploads :
          file_uploads[u].status \in {"completed", "completed_with_errors"}
              => Cardinality(RecordsOf(file_uploads[u].id))
                     = DataRowCount(content)

\* both rows of a content of two data rows are there, and the status is final
C23_Witness ==
    /\ DataRowCount(content) = 2
    /\ Len(csv_records) = 2
    /\ Len(file_uploads) = 1
    /\ file_uploads[1].status = "completed"

\* the messages of the findings of severity error that list row n, in the
\* order of the list
ErrorMessages(vals, n) ==
    LET Blames(v) == v.severity = "error" /\ Lists(v, n)
        blaming == SelectSeq(vals, Blames)
    IN  [k \in DOMAIN blaming |-> blaming[k].message]

\* C24: the validation_errors of a CSVRecord are the messages of exactly the
\* findings of severity error that list its row_number, in the order of the
\* report, and None when there is none; they are set exactly when is_valid
\* is "false", and no message of a warning or info finding is among them.
C24_ValidationErrors ==
    \A i \in DOMAIN csv_records :
        LET rec == csv_records[i]
            msgs == ErrorMessages(validations[1], rec.row_number)
        IN  /\ rec.validation_errors
                  = IF msgs = <<>> THEN <<>> ELSE Some(JsonDumps(msgs))
            /\ (rec.validation_errors # <<>>) <=> (rec.is_valid = "false")

\* a record listed by two findings of severity error and by a warning carries
\* the two messages
C24_Witness ==
    \E i \in DOMAIN csv_records :
        /\ csv_records[i].validation_errors # <<>>
        /\ Len(csv_records[i].validation_errors[1].json) = 2
        /\ \E k \in DOMAIN validations[1] :
              /\ validations[1][k].severity = "warning"
              /\ Lists(validations[1][k], csv_records[i].row_number)

\* C25: the status of a FileUpload starts at processing and is changed at
\* most once, to completed, completed_with_errors or error; a status that is
\* no longer processing is never changed again, so a FileUpload that reached
\* completed or completed_with_errors is never set to error afterwards
C25_StatusLifecycle ==
    [][ /\ \A u \in DOMAIN file_uploads' :
              u \notin DOMAIN file_uploads =>
                  file_uploads'[u].status = "processing"
        /\ \A u \in DOMAIN file_uploads :
              file_uploads'[u].status # file_uploads[u].status =>
                  /\ file_uploads[u].status = "processing"
                  /\ file_uploads'[u].status \in
                         {"completed", "completed_with_errors", "error"}
      ]_vars

\* ------------------------------------------ two calls in progress at once
\* Two requests are served at once, each by its own FileService, its own
\* locals and its own call of validate_csv; the bucket and the two tables are
\* the same for both.  The variables of the locals hold those of the call
\* that is running, suspended holds those of the call that waits.
\* the files sent as a.csv: bytes that do not decode, and the same row twice
FirstFiles ==
    { [utf8 |-> FALSE, lines |-> <<>>],
      CheckContent(<<"id", "nombre">>,
                   <<GoodLine(<<"1", "x">>), GoodLine(<<"1", "x">>)>>) }

\* the files sent as b.csv: a row with an empty cell, and a row of a.csv
\* followed by a line csv.reader rejects
SecondFiles ==
    { CheckContent(<<"id", "nombre">>, <<GoodLine(<<"", "x">>)>>),
      CheckContent(<<"id", "nombre">>, <<GoodLine(<<"1", "x">>), BadLine>>) }

\* the locals of a call of upload_and_process_csv
Locals(c, req, at, key, vals, p, num, count, fu, e, res) ==
    [content |-> c, request |-> req, pc |-> at, s3_key |-> key,
     validations |-> vals, pos |-> p, row_number |-> num,
     records_count |-> count, file_upload |-> fu, exc |-> e, result |-> res]

\* the locals of the call that is running
Running ==
    Locals(content, request, pc, s3_key, validations, pos, row_number,
           records_count, file_upload, exc, result)

PairInit ==
    /\ content \in FirstFiles
    /\ request = Unlabelled("a.csv")
    /\ credentials = <<>>
    /\ pc = "upload"
    /\ s3_calls = <<>>
    /\ s3_objects = {}
    /\ repo_calls = <<>>
    /\ file_uploads = <<>>
    /\ csv_records = <<>>
    /\ validations = <<>>
    /\ pos = 0
    /\ row_number = 2
    /\ records_count = 0
    /\ file_upload = <<>>
    /\ exc = <<>>
    /\ result = <<>>
    /\ s3_key = <<>>
    /\ \E c \in SecondFiles :
           suspended = Some(Locals(c, Unlabelled("b.csv"), "upload", <<>>,
                                   <<>>, 0, 2, 0, <<>>, <<>>, <<>>))

\* the two calls counting their rows with one counter
Switch_SharedCounter ==
    /\ suspended # <<>>
    /\ suspended[1].pc \notin {"returned", "raised"}
    /\ suspended' = Some(Running)
    /\ content' = suspended[1].content
    /\ request' = suspended[1].request
    /\ pc' = suspended[1].pc
    /\ s3_key' = suspended[1].s3_key
    /\ validations' = suspended[1].validations
    /\ pos' = suspended[1].pos
    /\ records_count' = suspended[1].records_count
    /\ file_upload' = suspended[1].file_upload
    /\ exc' = suspended[1].exc
    /\ result' = suspended[1].result
    /\ UNCHANGED <<row_number, credentials, s3_calls, s3_objects, repo_calls,
                   file_uploads, csv_records>>

\* the call that is running stops between two steps, or has ended, and the
\* other, which has not ended, goes on
Switch ==
    /\ suspended # <<>>
    /\ suspended[1].pc \notin {"returned", "raised"}
    /\ suspended' = Some(Running)
    /\ content' = suspended[1].content
    /\ request' = suspended[1].request
    /\ pc' = suspended[1].pc
    /\ s3_key' = suspended[1].s3_key
    /\ validations' = suspended[1].validations
    /\ pos' = suspended[1].pos
    /\ row_number' = suspended[1].row_number
    /\ records_count' = suspended[1].records_count
    /\ file_upload' = suspended[1].file_upload
    /\ exc' = suspended[1].exc
    /\ result' = suspended[1].result
    /\ UNCHANGED <<credentials, s3_calls, s3_objects, repo_calls,
                   file_uploads, csv_records>>

PairNext ==
    \/ S3UploadOk
    \/ S3UploadFails
    \/ Validate
    \/ DecodeFails
    \/ CreateFileUpload
    \/ ProcessRow
    \/ ReaderRaises
    \/ Finalize
    \/ HandleException
    \/ Switch

PairSpec == PairInit /\ [][PairNext]_vars

\* the locals of the two calls
Runs == {Running} \cup { suspended[i] : i \in DOMAIN suspended }

\* the CSVRecords of the FileUpload file_id, in the order of their insertion
RecordsInOrder(file_id) ==
    SelectSeq(csv_records, LAMBDA r : r.file_upload_id = file_id)

\* the CSVRecords recs, inserted so far for a file c whose lines are all
\* rows, are those the call makes for c on its own: vals is what validate_csv
\* returns for c
RowsAsAlone(recs, c, vals) ==
    \A k \in DOMAIN recs :
        /\ recs[k].row_number = k + 1
        /\ recs[k].record_data =
               JsonDumps(DictRow(Fieldnames(c.lines), c.lines[k + 1].cells))
        /\ recs[k].is_valid = IsValid(vals, k + 1)
        /\ recs[k].validation_errors =
               ValidationErrors(RowErrors(vals, k + 1, 1, <<>>))

\* the FileUpload, the CSVRecords and the payload of the call with the locals
\* run are those the call makes on its own for the findings it holds
AsAlone(run) ==
    /\ run.file_upload # <<>> =>
          /\ file_uploads[run.file_upload[1]].original_filename =
                 run.request.filename
          /\ file_uploads[run.file_upload[1]].s3_key = run.s3_key[1]
          /\ Len(RecordsInOrder(run.file_upload[1])) \in
                 {run.row_number - 2, run.row_number - 1}
          /\ RowsAsAlone(RecordsInOrder(run.file_upload[1]), run.content,
                         run.validations[1])
    /\ run.pc = "returned" =>
          /\ run.result[1].status = FinalStatus(run.validations[1])
          /\ run.result[1].validations = run.validations[1]
          /\ run.result[1].records_count = DataRowCount(run.content)
          /\ file_uploads[run.file_upload[1]].status =
                 FinalStatus(run.validations[1])
          /\ file_uploads[run.file_upload[1]].validations =
                 Some(JsonDumps(run.validations[1]))
          /\ file_uploads[run.file_upload[1]].records_count =
                 DataRowCount(run.content)

\* C26: when two calls on different files interleave, each call's findings,
\* CSVRecords and final status are those it produces on its own (the set of
\* rows seen and the row counter belong to the call), and every CSVRecord
\* references the FileUpload of the call that inserted it
C26_Interleaved ==
    /\ \A run \in Runs :
          /\ run.validations # <<>> =>
                 run.validations[1] = validate_csv(run.content).value
          /\ AsAlone(run)
    /\ \A i \in DOMAIN csv_records :
          \E run \in Runs :
              run.file_upload = Some(csv_records[i].file_upload_id)

C26_Witness ==
    /\ suspended # <<>>
    /\ pc = "returned"
    /\ suspended[1].pc = "returned"
    /\ Len(csv_records) = 3
    /\ csv_records[1].file_upload_id = csv_records[3].file_upload_id
    /\ csv_records[1].file_upload_id # csv_records[2].file_upload_id
    /\ HasType(validations[1], "duplicates")
        \/ HasType(suspended[1].validations[1], "duplicates")

\* the fields of a ValidationResult
FindingFields == {"validation_type", "message", "affected_rows", "severity"}

\* entry has the four fields, and a severity among error, warning and info
IsValidationResult(entry) ==
    /\ DOMAIN entry = FindingFields
    /\ entry.severity \in {"error", "warning", "info"}

\* C27: every entry of the validations stored in a FileUpload, and every
\* entry of the validations returned, has the four fields validation_type,
\* message, affected_rows and severity, with severity error, warning or
\* info; the entry written by the except clause included
C27_FindingFields ==
    /\ \A u \in DOMAIN file_uploads :
          file_uploads[u].validations # <<>> =>
              \A k \in DOMAIN file_uploads[u].validations[1].json :
                  IsValidationResult(file_uploads[u].validations[1].json[k])
    /\ (result # <<>> /\ result[1].kind = "return") =>
          \A k \in DOMAIN result[1].validations :
              IsValidationResult(result[1].validations[k])

\* the insert of a row raised and the update of the except clause that
\* followed went through
RowFailedThenMarked ==
    /\ Len(repo_calls) >= 2
    /\ repo_calls[Len(repo_calls) - 1].op = "create_csv_record"
    /\ ~repo_calls[Len(repo_calls) - 1].ok
    /\ repo_calls[Len(repo_calls)].op = "update_file_upload_status"
    /\ repo_calls[Len(repo_calls)].committed

\* C28: when the insert of the CSVRecord of row j raises, the CSVRecords of
\* rows 2..j-1 stay, no further row is inserted, and the update of the except
\* clause writes status and validations only: the FileUpload ends with status
\* error and records_count 0 while it has j-2 CSVRecords
C28_RowFailure ==
    RowFailedThenMarked =>
        /\ pc = "raised"
        /\ Len(csv_records) = row_number - 2
        /\ \A i \in DOMAIN csv_records :
              /\ csv_records[i].file_upload_id = file_upload[1]
              /\ csv_records[i].row_number = i + 1
        /\ file_uploads[file_upload[1]].status = "error"
        /\ file_uploads[file_upload[1]].records_count = 0

\* the condition under which the check named type lists a row: row is the
\* row, before the rows that came ahead of it
Flagged(type, row, fieldnames, before) ==
    CASE type = "empty_values" -> HasEmpty(row, fieldnames)
      [] type = "incorrect_types" ->
             IncorrectTypesFields(row, fieldnames, 0, 1, <<>>) # <<>>
      [] type = "duplicates" -> row \in before
      [] type = "invalid_format" -> RowLen(row) # Len(fieldnames)
      [] OTHER -> FALSE

\* the rows of the CSVRecords with a row number below n
RowsBefore(n) ==
    { csv_records[j].record_data.json :
          j \in { i \in DOMAIN csv_records : csv_records[i].row_number < n } }

\* C29: validate_csv and the loop that inserts the CSVRecords number the rows
\* alike: when a finding lists n, the CSVRecord with row_number n holds the
\* row the check found at fault, that is a row for which the condition of
\* that check holds
C29_SameNumbering ==
    \A i \in DOMAIN csv_records :
        \A k \in DOMAIN validations[1] :
            Lists(validations[1][k], csv_records[i].row_number) =>
                Flagged(validations[1][k].validation_type,
                        csv_records[i].record_data.json,
                        Fieldnames(content.lines),
                        RowsBefore(csv_records[i].row_number))

C29_Witness ==
    /\ Len(csv_records) = 2
    /\ HasType(validations[1], "duplicates")
    /\ HasType(validations[1], "empty_values")
    /\ Lists(validations[1][1], 2)
    /\ \E k \in DOMAIN validations[1] :
          /\ validations[1][k].validation_type = "duplicates"
          /\ Lists(validations[1][k], 3)

\* C30: the call makes one call to the storage, upload_file, before any call
\* to the repository, and never delete_file or file_exists: once uploaded,
\* the object stays in the bucket whatever fails afterwards, also when no
\* FileUpload refers to it
C30_UploadOnly ==
    /\ Len(s3_calls) <= 1
    /\ \A i \in DOMAIN s3_calls : s3_calls[i].op = "upload_file"
    /\ pc # "upload" => Len(s3_calls) = 1
    /\ repo_calls # <<>> => StorageSucceeded
    /\ StorageSucceeded => s3_objects = {s3_key[1]}
    /\ StorageFailed => s3_objects = {}

C30_Witness ==
    /\ pc = "raised"
    /\ StorageSucceeded
    /\ s3_objects = {s3_key[1]}
    /\ repo_calls # <<>>
    /\ file_uploads = <<>>

====
